---- MODULE Spec2Model ----
(***************************************************************************)
(* Model of pupil_src/shared_modules/background_helper.py: Task_Proxy.     *)
(*                                                                         *)
(* Two execution contexts per task: the worker process running _wrapper   *)
(* and the controller (the caller's thread) running fetch(), cancel() and *)
(* __del__().  They share the pipe and the _should_terminate_flag.        *)
(*                                                                         *)
(* fetch() is a generator function: calling it runs nothing; each next()  *)
(* on the generator object runs the body up to the next yield, return or  *)
(* raise, which is one poll(0) and at most one recv().                    *)
(*                                                                         *)
(* A message is the pickled Python object itself.  fetch() tells data     *)
(* from control messages by the object's class only, so the model keeps   *)
(* the class (cls) of every object.  The fields tag and idx are history:  *)
(* who sent the message and which yield of the generator it was.  No      *)
(* definition that models code reads them.                                *)
(***************************************************************************)
EXTENDS Integers, Sequences, FiniteSets, TLC

\* ---- bounds ------------------------------------------------------------
MaxItems == 2       \* longest generator output
MaxPipe == 1        \* messages the OS pipe buffers before send() blocks
MaxGens == 1        \* fetch() generator objects the caller keeps alive
MaxCancels == 2     \* explicit cancel() calls

\* ---- values ------------------------------------------------------------
\* Classes of the objects a generator can yield, as fetch() tells them apart.
ItemClasses == {"data", "StopIteration", "EarlyCancellationError", "Exception"}

\* How the generator's iteration ends: exhausted, raises an Exception,
\* raises EarlyCancellationError itself, raises a BaseException that is
\* not an Exception (SystemExit, KeyboardInterrupt).
Outcomes == {"stop", "raiseException", "raiseCancellation", "raiseBase"}

NoMsg == [cls |-> "none", tag |-> "none", idx |-> 0]

ItemMsg(c, i) == [cls |-> c, tag |-> "item", idx |-> i]

EndMsg == [cls |-> "StopIteration", tag |-> "end", idx |-> 0]

CancelMsg == [cls |-> "EarlyCancellationError", tag |-> "cancel", idx |-> 0]

GenErrMsg(c) == [cls |-> c, tag |-> "generr", idx |-> 0]

\* The label of a step: who acted (op), how it ended (res), why, and the
\* message it took from the pipe, if any.
Ev(op, res, why, msg) == [op |-> op, res |-> res, why |-> why, msg |-> msg]

NoOp == Ev("none", "none", "none", NoMsg)

WorkerOp == Ev("worker", "none", "none", NoMsg)

VARIABLES
    genItems,     \* input: classes of the objects the generator yields
    genOutcome,   \* input: how the generator ends
    wpc,          \* worker: position in _wrapper
    widx,         \* worker: number of items taken from the generator
    wexc,         \* worker: the exception caught by `except Exception as e`
    flag,         \* _should_terminate_flag.value
    pipe,         \* messages sent and not yet received
    closed,       \* the worker closed its send handle
    completed,    \* self._completed
    canceled,     \* self._canceled
    process,      \* self.process: "Process" or "None"
    cpc,          \* controller: "idle", inside cancel(), or "dead"
    inDel,        \* the running cancel() was called by __del__
    nFresh,       \* fetch() generators created and not yet started
    nSusp,        \* fetch() generators suspended at their yield
    got,          \* history: every item a fetch() generator yielded, and to whom
    last,         \* history: the label of the step that led to this state
    cancels,      \* history: number of cancel() calls made by the caller
    timedOut,     \* history: the join() that released the handle timed out
    drainWhy,     \* history: how the drain of the latest cancel() ended
    sent,         \* history: every message the worker has sent, in order
    sentAtFlag    \* history: Len(sent) when cancel() first set the flag

wvars == <<wpc, widx, wexc, pipe, closed, sent>>

cvars == <<flag, completed, canceled, process, cpc, inDel, nFresh, nSusp,
           got, cancels, timedOut, drainWhy, sentAtFlag>>

vars == <<genItems, genOutcome, wpc, widx, wexc, flag, pipe, closed,
          completed, canceled, process, cpc, inDel, nFresh, nSusp, got,
          last, cancels, timedOut, drainWhy, sent, sentAtFlag>>

RECURSIVE SeqsUpTo(_, _)
SeqsUpTo(S, n) ==
    IF n = 0 THEN {<<>>}
    ELSE LET shorter == SeqsUpTo(S, n - 1)
         IN shorter \cup {Append(s, x) : s \in {t \in shorter : Len(t) = n - 1}, x \in S}

\* Task_Proxy.__init__: flag 0, both status fields False, the pipe empty,
\* the worker process started at the top of _wrapper.
Init ==
    /\ genItems \in SeqsUpTo(ItemClasses, MaxItems)
    /\ genOutcome \in Outcomes
    /\ wpc = "next"
    /\ widx = 0
    /\ wexc = NoMsg
    /\ flag = FALSE
    /\ pipe = <<>>
    /\ closed = FALSE
    /\ completed = FALSE
    /\ canceled = FALSE
    /\ process = "Process"
    /\ cpc = "idle"
    /\ inDel = FALSE
    /\ nFresh = 0
    /\ nSusp = 0
    /\ got = <<>>
    /\ last = NoOp
    /\ cancels = 0
    /\ timedOut = FALSE
    /\ drainWhy = "none"
    /\ sent = <<>>
    /\ sentAtFlag = 0

\* ---- the worker: Task_Proxy._wrapper -----------------------------------

\* pipe.send blocks while the pipe's buffer is full.
CanSend(p) == Len(p) < MaxPipe

\* `for datum in generator(...)`: the generator yields its next object,
\* is exhausted, or raises.
WorkerNext ==
    /\ wpc = "next"
    /\ IF widx < Len(genItems)
       THEN /\ widx' = widx + 1
            /\ wpc' = "check"
            /\ wexc' = wexc
       ELSE /\ widx' = widx
            /\ CASE genOutcome = "stop" -> wpc' = "sendEnd" /\ wexc' = wexc
                 [] genOutcome = "raiseException" ->
                        wpc' = "sendExc" /\ wexc' = GenErrMsg("Exception")
                 [] genOutcome = "raiseCancellation" ->
                        wpc' = "sendExc" /\ wexc' = GenErrMsg("EarlyCancellationError")
                 [] genOutcome = "raiseBase" -> wpc' = "close" /\ wexc' = wexc
    /\ UNCHANGED <<pipe, closed, sent, genItems, genOutcome>>
    /\ last' = WorkerOp
    /\ UNCHANGED cvars

\* Mutant of WorkerCheck: the worker clears the flag once it has seen it.
WorkerCheckClearsFlag ==
    /\ wpc = "check"
    /\ IF flag
       THEN wpc' = "sendExc" /\ wexc' = CancelMsg
       ELSE wpc' = "send" /\ wexc' = wexc
    /\ flag' = FALSE
    /\ UNCHANGED <<widx, pipe, closed, sent, genItems, genOutcome>>
    /\ last' = WorkerOp
    /\ UNCHANGED <<completed, canceled, process, cpc, inDel, nFresh, nSusp,
                   got, cancels, timedOut, drainWhy, sentAtFlag>>

\* Mutant of WorkerCheck: the worker does not look at the flag.
WorkerCheckIgnoresFlag ==
    /\ wpc = "check"
    /\ wpc' = "send"
    /\ UNCHANGED <<widx, wexc, pipe, closed, sent, genItems, genOutcome>>
    /\ last' = WorkerOp
    /\ UNCHANGED cvars

\* `if _should_terminate_flag.value: raise EarlyCancellationError(...)`
WorkerCheck ==
    /\ wpc = "check"
    /\ IF flag
       THEN wpc' = "sendExc" /\ wexc' = CancelMsg
       ELSE wpc' = "send" /\ wexc' = wexc
    /\ UNCHANGED <<widx, pipe, closed, sent, genItems, genOutcome>>
    /\ last' = WorkerOp
    /\ UNCHANGED cvars

\* `pipe.send(datum)`
WorkerSend ==
    /\ wpc = "send"
    /\ CanSend(pipe)
    /\ pipe' = Append(pipe, ItemMsg(genItems[widx], widx))
    /\ sent' = Append(sent, ItemMsg(genItems[widx], widx))
    /\ wpc' = "next"
    /\ UNCHANGED <<widx, wexc, closed, genItems, genOutcome>>
    /\ last' = WorkerOp
    /\ UNCHANGED cvars

\* `except Exception as e: pipe.send(e)`
WorkerSendExc ==
    /\ wpc = "sendExc"
    /\ CanSend(pipe)
    /\ pipe' = Append(pipe, wexc)
    /\ sent' = Append(sent, wexc)
    /\ wpc' = "close"
    /\ UNCHANGED <<widx, wexc, closed, genItems, genOutcome>>
    /\ last' = WorkerOp
    /\ UNCHANGED cvars

\* Mutant of WorkerSendEnd: the `else` branch sends nothing.
WorkerSendEndSkipped ==
    /\ wpc = "sendEnd"
    /\ wpc' = "close"
    /\ UNCHANGED <<widx, wexc, pipe, closed, sent, genItems, genOutcome>>
    /\ last' = WorkerOp
    /\ UNCHANGED cvars

\* `else: pipe.send(StopIteration())`
WorkerSendEnd ==
    /\ wpc = "sendEnd"
    /\ CanSend(pipe)
    /\ pipe' = Append(pipe, EndMsg)
    /\ sent' = Append(sent, EndMsg)
    /\ wpc' = "close"
    /\ UNCHANGED <<widx, wexc, closed, genItems, genOutcome>>
    /\ last' = WorkerOp
    /\ UNCHANGED cvars

\* `finally: pipe.close()`
WorkerClose ==
    /\ wpc = "close"
    /\ closed' = TRUE
    /\ wpc' = "closed"
    /\ UNCHANGED <<widx, wexc, pipe, sent, genItems, genOutcome>>
    /\ last' = WorkerOp
    /\ UNCHANGED cvars

\* _wrapper returns and the worker process exits.
WorkerExit ==
    /\ wpc = "closed"
    /\ wpc' = "exited"
    /\ UNCHANGED <<widx, wexc, pipe, closed, sent, genItems, genOutcome>>
    /\ last' = WorkerOp
    /\ UNCHANGED cvars

\* ---- the controller: Task_Proxy.fetch --------------------------------

\* `self.pipe.poll(0)`: true when a message is buffered, and also when the
\* last send handle is closed (end of stream is readable).
Poll(p, c) == Len(p) > 0 \/ c

\* Mutant of Classify: the Exception test comes before the test for its
\* subclass EarlyCancellationError.
ClassifyExceptionFirst(cls) ==
    IF cls = "StopIteration" THEN "end"
    ELSE IF cls \in {"Exception", "EarlyCancellationError"} THEN "error"
    ELSE "item"

\* The isinstance chain of fetch(), on the class of the received object.
\* EarlyCancellationError is a subclass of Exception and is tested first.
Classify(cls) ==
    IF cls = "StopIteration" THEN "end"
    ELSE IF cls = "EarlyCancellationError" THEN "cancel"
    ELSE IF cls = "Exception" THEN "error"
    ELSE "item"

\* How next() on a fetch() generator ends for each branch of the body.
Result(why) ==
    IF why = "item" THEN "yield"
    ELSE IF why = "error" THEN "raise"
    ELSE "stop"

\* One pass of `while self.pipe.poll(0)`: nothing to read, EOFError from
\* recv(), or one received object and its branch.
Pull(p, c) ==
    IF ~Poll(p, c) THEN [res |-> "stop", why |-> "empty", msg |-> NoMsg]
    ELSE IF p = <<>> THEN [res |-> "stop", why |-> "eof", msg |-> NoMsg]
    ELSE [res |-> Result(Classify(Head(p).cls)),
          why |-> Classify(Head(p).cls),
          msg |-> Head(p)]

\* Mutant of FetchBody: the check for a terminal task is missing.
FetchBodyNoCheck(first, terminal, p, c) == Pull(p, c)

\* One next() on a fetch() generator.  Only the first next() runs
\* `if self.completed or self.canceled: return`; a generator resumed at
\* its yield goes straight back to the poll.
FetchBody(first, terminal, p, c) ==
    IF first /\ terminal
    THEN [res |-> "stop", why |-> "terminal", msg |-> NoMsg]
    ELSE Pull(p, c)

\* `self._completed = True` on StopIteration.
NewCompleted(r, cur) == cur \/ r.why = "end"

\* Mutant of NewCanceled: the EOFError handler sets nothing.
NewCanceledNoEof(r, cur) == cur \/ r.why = "cancel"

\* Mutant of NewCanceled: the EarlyCancellationError branch sets nothing.
NewCanceledEofOnly(r, cur) == cur \/ r.why = "eof"

\* `self._canceled = True` on EOFError and on EarlyCancellationError.
NewCanceled(r, cur) == cur \/ r.why \in {"eof", "cancel"}

\* recv() takes the first buffered message.
NewPipe(r, p) == IF r.msg = NoMsg THEN p ELSE Tail(p)

\* What one next() does to the task; `by` is who iterates the generator.
Apply(r, by) ==
    /\ pipe' = NewPipe(r, pipe)
    /\ completed' = NewCompleted(r, completed)
    /\ canceled' = NewCanceled(r, canceled)
    /\ got' = IF r.res = "yield"
              THEN Append(got, [idx |-> r.msg.idx, by |-> by])
              ELSE got

\* `task.fetch()`: creates the generator object and runs none of the body.
FetchCall ==
    /\ cpc = "idle"
    /\ nFresh + nSusp < MaxGens
    /\ nFresh' = nFresh + 1
    /\ last' = Ev("fetchcall", "none", "none", NoMsg)
    /\ UNCHANGED <<genItems, genOutcome, flag, completed, canceled, process,
                   cpc, inDel, nSusp, got, cancels, timedOut, drainWhy,
                   sentAtFlag>>
    /\ UNCHANGED wvars

\* The caller's next() on one of its fetch() generators: the first next()
\* of a new generator (op "fetch") or the resumption of a suspended one
\* (op "resume").
FetchNext(first) ==
    /\ cpc = "idle"
    /\ IF first THEN nFresh > 0 ELSE nSusp > 0
    /\ LET r == FetchBody(first, completed \/ canceled, pipe, closed)
           live == IF r.res = "yield" THEN 1 ELSE 0
       IN /\ Apply(r, "fetch")
          /\ nFresh' = IF first THEN nFresh - 1 ELSE nFresh
          /\ nSusp' = IF first THEN nSusp + live ELSE nSusp - 1 + live
          /\ last' = Ev(IF first THEN "fetch" ELSE "resume", r.res, r.why, r.msg)
    /\ UNCHANGED <<genItems, genOutcome, flag, process, cpc, inDel, cancels,
                   timedOut, drainWhy, sentAtFlag>>
    /\ UNCHANGED <<wpc, widx, wexc, closed, sent>>

\* A fetch() that read ahead: letting go of its generator loses what the
\* pipe held.
FetchDropLosesBuffered(first) ==
    /\ cpc = "idle"
    /\ IF first THEN nFresh > 0 ELSE nSusp > 0
    /\ nFresh' = IF first THEN nFresh - 1 ELSE nFresh
    /\ nSusp' = IF first THEN nSusp ELSE nSusp - 1
    /\ pipe' = <<>>
    /\ last' = Ev("drop", "none", IF first THEN "fresh" ELSE "suspended", NoMsg)
    /\ UNCHANGED <<genItems, genOutcome, flag, completed, canceled, process,
                   cpc, inDel, got, cancels, timedOut, drainWhy, sentAtFlag>>
    /\ UNCHANGED <<wpc, widx, wexc, closed, sent>>

\* The caller stops iterating a generator and lets go of it.
FetchDrop(first) ==
    /\ cpc = "idle"
    /\ IF first THEN nFresh > 0 ELSE nSusp > 0
    /\ nFresh' = IF first THEN nFresh - 1 ELSE nFresh
    /\ nSusp' = IF first THEN nSusp ELSE nSusp - 1
    /\ last' = Ev("drop", "none", IF first THEN "fresh" ELSE "suspended", NoMsg)
    /\ UNCHANGED <<genItems, genOutcome, flag, completed, canceled, process,
                   cpc, inDel, got, cancels, timedOut, drainWhy, sentAtFlag>>
    /\ UNCHANGED wvars

\* ---- the controller: Task_Proxy.cancel and __del__ ---------------------

OpName(del) == IF del THEN "del" ELSE "cancel"

\* Where the controller is once cancel() is left: back in the caller, or
\* gone when the call came from __del__.
After(del) == IF del THEN "dead" ELSE "idle"

\* Mutant of ShouldDrain: cancel() does not look at the task's status.
ShouldDrainAlways(comp, canc) == TRUE

\* `if not (self.completed or self.canceled)` at the top of cancel().
ShouldDrain(comp, canc) == ~(comp \/ canc)

\* Entry of cancel(): a task that is not terminal gets the flag set and the
\* drain started; otherwise `if self.process is not None` goes to the
\* join; otherwise cancel() returns at once.
Enter(del) ==
    /\ cpc = "idle"
    /\ inDel' = del
    /\ IF ShouldDrain(completed, canceled)
       THEN /\ flag' = TRUE
            /\ sentAtFlag' = IF flag THEN sentAtFlag ELSE Len(sent)
            /\ cpc' = "drain0"
            /\ drainWhy' = "running"
            /\ last' = Ev(OpName(del), "begin", "none", NoMsg)
       ELSE /\ flag' = flag
            /\ sentAtFlag' = sentAtFlag
            /\ drainWhy' = "terminal"
            /\ IF process # "None"
               THEN /\ cpc' = "join"
                    /\ last' = Ev(OpName(del), "begin", "terminal", NoMsg)
               ELSE /\ cpc' = After(del)
                    /\ last' = Ev(OpName(del), "return", "terminal", NoMsg)
    /\ UNCHANGED <<genItems, genOutcome, completed, canceled, process, nFresh,
                   nSusp, got, timedOut>>
    /\ UNCHANGED wvars

\* `task.cancel()` called by the caller.
CancelCall ==
    /\ cancels < MaxCancels
    /\ cancels' = cancels + 1
    /\ Enter(FALSE)

\* `__del__`: runs when nothing refers to the task any more, so no fetch()
\* generator is alive; calls cancel(timeout=.1).
Teardown ==
    /\ nFresh = 0
    /\ nSusp = 0
    /\ cancels' = cancels
    /\ Enter(TRUE)

\* `for x in self.fetch(): pass` inside cancel(): one next() on cancel's
\* own generator.  An item is discarded; when the generator returns cancel()
\* goes on to the join; an exception raised by fetch() leaves cancel().
CancelDrain ==
    /\ cpc \in {"drain0", "drain"}
    /\ LET r == FetchBody(cpc = "drain0", completed \/ canceled, pipe, closed)
       IN /\ Apply(r, "cancel")
          /\ drainWhy' = IF r.res = "yield" THEN drainWhy ELSE r.why
          /\ CASE r.res = "yield" ->
                    /\ cpc' = "drain"
                    /\ last' = Ev("drain", r.res, r.why, r.msg)
               [] r.res = "raise" ->
                    /\ cpc' = After(inDel)
                    /\ last' = Ev(OpName(inDel), "raise", r.why, r.msg)
               [] r.res = "stop" ->
                    IF process # "None"
                    THEN /\ cpc' = "join"
                         /\ last' = Ev("drain", r.res, r.why, r.msg)
                    ELSE /\ cpc' = After(inDel)
                         /\ last' = Ev(OpName(inDel), "return", r.why, r.msg)
    /\ UNCHANGED <<genItems, genOutcome, flag, process, inDel, nFresh, nSusp,
                   cancels, timedOut, sentAtFlag>>
    /\ UNCHANGED <<wpc, widx, wexc, closed, sent>>

\* Mutant of JoinReturns: join() does not wait for the worker.
JoinNoWait(exited, elapsed) == TRUE

\* `self.process.join(timeout)` returns when the worker process has exited
\* or when the timeout has elapsed, whichever is first.
JoinReturns(exited, elapsed) == exited \/ elapsed

\* `self.process.join(timeout); self.process = None`, and cancel() returns.
\* The timeout can elapse only while the worker has not exited.
Join(elapsed) ==
    /\ cpc = "join"
    /\ elapsed => wpc # "exited"
    /\ JoinReturns(wpc = "exited", elapsed)
    /\ process' = "None"
    /\ timedOut' = elapsed
    /\ cpc' = After(inDel)
    /\ last' = Ev(OpName(inDel), "return", IF elapsed THEN "timeout" ELSE "joined", NoMsg)
    /\ UNCHANGED <<genItems, genOutcome, flag, completed, canceled, inDel,
                   nFresh, nSusp, got, cancels, drainWhy, sentAtFlag>>
    /\ UNCHANGED wvars

Next ==
    \/ WorkerNext
    \/ WorkerCheck
    \/ WorkerSend
    \/ WorkerSendExc
    \/ WorkerSendEnd
    \/ WorkerClose
    \/ WorkerExit
    \/ FetchCall
    \/ \E first \in BOOLEAN : FetchNext(first)
    \/ \E first \in BOOLEAN : FetchDrop(first)
    \/ CancelCall
    \/ Teardown
    \/ CancelDrain
    \/ \E elapsed \in BOOLEAN : Join(elapsed)

Spec == Init /\ [][Next]_vars

\* Any step of the worker process.
WorkerStep ==
    \/ WorkerNext
    \/ WorkerCheck
    \/ WorkerSend
    \/ WorkerSendExc
    \/ WorkerSendEnd
    \/ WorkerClose
    \/ WorkerExit

\* The scheduling the platform gives: the worker process runs whenever it
\* is not blocked in pipe.send, and a cancel() that was entered runs to its
\* end (its drain goes on, its join returns at the worker's exit or at the
\* timeout).  Nothing obliges the caller to call fetch() or cancel().
FairSpec ==
    /\ Spec
    /\ WF_vars(WorkerStep)
    /\ WF_vars(CancelDrain)
    /\ WF_vars(\E elapsed \in BOOLEAN : Join(elapsed))

TypeOK ==
    /\ wpc \in {"next", "check", "send", "sendExc", "sendEnd", "close", "closed", "exited"}
    /\ widx \in 0..MaxItems
    /\ Len(pipe) <= MaxPipe
    /\ cpc \in {"idle", "drain0", "drain", "join", "dead"}
    /\ process \in {"Process", "None"}
    /\ nFresh + nSusp <= MaxGens

\* ---- vocabulary of the properties ------------------------------------

\* The positions, in the generator's output, of the items yielded so far.
GotIdx == [i \in 1..Len(got) |-> got[i].idx]

Iota(n) == [i \in 1..n |-> i]

\* Neither cancel() nor __del__ has been called.
NoCancelYet == cancels = 0 /\ ~inDel

\* Every item yielded so far went to cancel()'s drain, none to the caller.
NoCallerItem == \A i \in 1..Len(got) : got[i].by = "cancel"

\* The worker is in the Running state of its state machine: it has sent
\* no terminal message and has not closed the pipe.
WorkerRunning == wpc \in {"next", "check", "send"}

\* The step that led here was the caller's cancel() returning normally.
CancelReturned == last.op = "cancel" /\ last.res = "return"

\* ---- C1 ----------------------------------------------------------------
\* C1: for a generator that yields N items and stops, with cancel() never
\* called, canceled is false in every state and, once completed is true,
\* the fetch() calls have yielded exactly the N items in their order.
C1_FiniteRunDelivered ==
    (genOutcome = "stop" /\ NoCancelYet)
        => /\ ~canceled
           /\ completed => GotIdx = Iota(Len(genItems))

\* ---- C2 ----------------------------------------------------------------
\* C2 as claimed: when the first cancel() returns and the caller has been
\* yielded no item, canceled is true and completed is false.
C2_CanceledOnReturn ==
    (CancelReturned /\ cancels = 1 /\ NoCallerItem)
        => canceled /\ ~completed

\* C2 amended: when the first cancel() returns and the caller has been
\* yielded no item, completed and canceled are not both true, and they
\* follow the way the drain ended: canceled (and not completed) after the
\* cancellation error or end of stream, completed (and not canceled) after
\* a StopIteration object, neither after the pipe was found empty.
C2_StatusFollowsDrain ==
    (CancelReturned /\ cancels = 1 /\ NoCallerItem)
        => /\ ~(completed /\ canceled)
           /\ drainWhy \in {"eof", "cancel"} => canceled /\ ~completed /\ flag
           /\ drainWhy = "end" => completed /\ ~canceled /\ flag
           /\ drainWhy = "empty" => ~completed /\ ~canceled /\ flag

\* C2 witness: the first cancel() has returned, its drain read the
\* worker's cancellation error, and the caller was yielded no item.
C2_Witness ==
    /\ CancelReturned
    /\ cancels = 1
    /\ NoCallerItem
    /\ drainWhy = "cancel"
    /\ canceled

\* ---- C3 ----------------------------------------------------------------
\* C3: when the generator raises an error after k items and cancel() is
\* never called, the error a fetch() raises is the generator's error, it
\* is raised after exactly the k items were yielded in order, and
\* completed and canceled are both false in that state.
C3_ErrorAfterKItems ==
    (genOutcome = "raiseException" /\ NoCancelYet
     /\ last.op \in {"fetch", "resume"} /\ last.res = "raise")
        => /\ last.msg.tag = "generr"
           /\ GotIdx = Iota(Len(genItems))
           /\ ~completed
           /\ ~canceled

\* ---- C4 ----------------------------------------------------------------
\* C4: completed and canceled are never both true.
C4_MutuallyExclusive == ~(completed /\ canceled)

\* ---- C5 ----------------------------------------------------------------
\* A step of a cancel() that the caller made after an earlier cancel() had
\* returned (the handle is released): its entry, or a next() of its drain.
LaterCancelStep ==
    /\ process = "None"
    /\ \/ cpc = "idle" /\ last'.op = "cancel"
       \/ cpc \in {"drain0", "drain"} /\ ~inDel /\ last'.op \in {"drain", "cancel"}

\* C5 as claimed: a cancel() after an earlier cancel() has returned changes
\* neither completed nor canceled nor the flag, takes nothing from the
\* pipe, and raises nothing.
C5_SecondCancelNoOp ==
    [][LaterCancelStep
        => /\ completed' = completed
           /\ canceled' = canceled
           /\ flag' = flag
           /\ pipe' = pipe
           /\ last'.res # "raise"]_vars

\* C5 amended: a cancel() after an earlier cancel() has returned never
\* changes the flag or the worker handle, and when completed or canceled
\* is true at the call it changes no status, takes nothing from the pipe
\* and raises nothing.
C5_SecondCancelNoOpIfTerminal ==
    [][LaterCancelStep
        => /\ flag' = flag
           /\ process' = process
           /\ (completed \/ canceled)
                => /\ completed' = completed
                   /\ canceled' = canceled
                   /\ pipe' = pipe
                   /\ last'.res = "return"]_vars

\* C5 witness: a second cancel() has returned at once on a terminal task
\* whose handle an earlier cancel() had released.
C5_Witness ==
    /\ CancelReturned
    /\ cancels >= 2
    /\ last.why = "terminal"
    /\ process = "None"
    /\ completed \/ canceled

C7_YieldedIsPrefix == GotIdx = Iota(Len(got))

\* ---- C8 ----------------------------------------------------------------
\* C8 as claimed: the first next() of a fetch() on a terminal task, or on a
\* task with no buffered message, yields nothing, raises nothing, reads
\* nothing and leaves completed, canceled, the flag and the pipe unchanged.
C8_EmptyFetchNoOp ==
    [][(last'.op = "fetch" /\ (completed \/ canceled \/ pipe = <<>>))
        => /\ last'.res = "stop"
           /\ last'.msg = NoMsg
           /\ UNCHANGED <<completed, canceled, flag, pipe>>]_vars

\* C8 amended: the same, for a task that is terminal or whose pipe is
\* empty with the worker's send handle still open.
C8_EmptyFetchNoOpUnlessClosed ==
    [][(last'.op = "fetch" /\ (completed \/ canceled \/ (pipe = <<>> /\ ~closed)))
        => /\ last'.res = "stop"
           /\ last'.msg = NoMsg
           /\ UNCHANGED <<completed, canceled, flag, pipe>>]_vars

\* C8 witness: a fetch() on a terminal task has returned with a message
\* still buffered in the pipe.
C8_Witness ==
    /\ last.op = "fetch"
    /\ last.why = "terminal"
    /\ pipe # <<>>

\* ---- C9 ----------------------------------------------------------------
\* C9: whenever the caller's cancel() is left, by return or by the worker's
\* error raised from the drain, the worker handle is released.
C9_HandleReleasedOnExit ==
    (/\ last.op = "cancel"
     /\ \/ last.res = "return"
        \/ last.res = "raise" /\ last.msg.tag = "generr")
        => process = "None"

\* ---- C10 ---------------------------------------------------------------
\* C10: cancel() never raises the worker's error to its caller.
C10_CancelNeverRaises ==
    ~(last.op = "cancel" /\ last.res = "raise" /\ last.msg.tag = "generr")

\* ---- C11 ---------------------------------------------------------------
\* C11: a cancel() (the caller's, or the one __del__ makes) entered while
\* completed or canceled is true does not write the flag, starts no drain,
\* takes nothing from the pipe and leaves completed and canceled as they
\* are; so does the join that may follow.
C11_CancelOnTerminalNoOp ==
    [][(/\ last'.op \in {"cancel", "del"}
        /\ \/ cpc = "idle" /\ (completed \/ canceled)
           \/ cpc = "join")
        => /\ cpc' \notin {"drain0", "drain"}
           /\ last'.res # "raise"
           /\ UNCHANGED <<flag, pipe, completed, canceled>>]_vars

\* C11 witness: the caller's first cancel() has returned on a task that was
\* completed when it was called; the flag is still false.
C11_Witness ==
    /\ CancelReturned
    /\ cancels = 1
    /\ drainWhy = "terminal"
    /\ completed
    /\ ~flag

\* ---- C12 ---------------------------------------------------------------
\* A step that is one next() of a fetch() generator, the caller's or the
\* one cancel() drains.
FetchStep == last'.op \in {"fetch", "resume", "drain", "cancel", "del"}
                /\ cpc \in {"idle", "drain0", "drain"}
                /\ last'.res \in {"yield", "stop", "raise", "return"}
                /\ last'.why \notin {"terminal", "none"}

\* C12: a next() of fetch() that meets end of stream (EOFError from
\* recv()) sets canceled, leaves completed as it is, takes no message and
\* raises nothing.
C12_EofMeansCanceled ==
    [][(FetchStep /\ last'.why = "eof")
        => /\ canceled'
           /\ completed' = completed
           /\ last'.res \in {"stop", "return"}
           /\ last'.msg = NoMsg
           /\ pipe' = pipe]_vars

\* C12 witness: the worker ended on a BaseException, without End or
\* Failure, and a fetch() met end of stream.
C12_Witness ==
    /\ genOutcome = "raiseBase"
    /\ last.op = "fetch"
    /\ last.why = "eof"
    /\ \A i \in 1..Len(sent) : sent[i].tag = "item"
    /\ canceled
    /\ ~completed

\* ---- C13 ---------------------------------------------------------------
\* C13: no next() of fetch(), and so no cancel(), raises an
\* EarlyCancellationError; a next() that receives one ends the generator,
\* sets canceled and changes neither completed nor the flag.
C13_CancellationNotSurfaced ==
    [][FetchStep
        => /\ last'.res = "raise" => last'.msg.cls # "EarlyCancellationError"
           /\ last'.msg.cls = "EarlyCancellationError"
                => /\ last'.res \in {"stop", "return"}
                   /\ canceled'
                   /\ got' = got
                   /\ UNCHANGED <<completed, flag>>]_vars

\* C13 witness: cancel()'s drain has received the worker's cancellation
\* error.
C13_Witness ==
    /\ last.op \in {"drain", "cancel"}
    /\ last.msg = CancelMsg
    /\ canceled
    /\ ~completed

\* ---- C14 ---------------------------------------------------------------
\* The messages the worker sends from its except and else branches.
TerminalTags == {"end", "cancel", "generr"}

NTerminal == Cardinality({i \in 1..Len(sent) : sent[i].tag \in TerminalTags})

\* The worker has left the try statement: it is about to close the pipe,
\* has closed it, or has exited.
WorkerLeft == wpc \in {"close", "closed", "exited"}

\* C14 as claimed: the worker sends at most one terminal message, it is the
\* last message sent and the close follows it; on every exit path exactly
\* one terminal message was sent; the worker never exits with the send
\* handle open.
C14_OneTerminalThenClose ==
    /\ NTerminal <= 1
    /\ NTerminal = 1 => sent[Len(sent)].tag \in TerminalTags /\ WorkerLeft
    /\ WorkerLeft => NTerminal = 1
    /\ wpc = "exited" => closed

\* C14 amended: the same, except that on the exit path where the generator
\* raises a BaseException that is not an Exception the worker has sent all
\* the generator's items and no terminal message.
C14_OneTerminalUnlessBaseException ==
    /\ NTerminal <= 1
    /\ NTerminal = 1 => sent[Len(sent)].tag \in TerminalTags /\ WorkerLeft
    /\ WorkerLeft => \/ NTerminal = 1
                     \/ /\ genOutcome = "raiseBase"
                        /\ NTerminal = 0
                        /\ Len(sent) = Len(genItems)
    /\ wpc = "exited" => closed

\* C14 witness: the worker has exited after the generator raised an
\* Exception: one Failure message was sent, last, and the pipe is closed.
C14_Witness ==
    /\ wpc = "exited"
    /\ closed
    /\ NTerminal = 1
    /\ sent[Len(sent)] = GenErrMsg("Exception")

\* ---- C15 ---------------------------------------------------------------
\* The data items the worker sent after cancel() set the flag.
ItemsAfterFlag ==
    Cardinality({i \in (sentAtFlag + 1)..Len(sent) : sent[i].tag = "item"})

\* C15: once the flag is set the worker sends at most one more data item.
C15_AtMostOneItemAfterFlag == flag => ItemsAfterFlag <= 1

\* C15 witness: the flag was set between the worker's check and its send;
\* the worker sent that one item and then its cancellation error, with
\* items of the generator left unsent.
C15_Witness ==
    /\ flag
    /\ ItemsAfterFlag = 1
    /\ sent # <<>>
    /\ sent[Len(sent)] = CancelMsg
    /\ Len(sent) = sentAtFlag + 2

\* ---- C16 ---------------------------------------------------------------
\* C16: with the flag set while the worker is at its send with more items
\* to come, the worker eventually closes the pipe.
C16_FlagLeadsToClosed ==
    (flag /\ wpc = "send" /\ widx < Len(genItems)) ~> closed

\* ---- C17 ---------------------------------------------------------------
\* C17: the flag is false after construction and changes only from false
\* to true, and only in the entry step of a cancel() (the caller's or the
\* one __del__ makes) on a task that is not terminal.
C17_FlagMonotonic ==
    /\ ~flag
    /\ [][flag' # flag
            => /\ ~flag
               /\ flag'
               /\ cpc = "idle"
               /\ last'.op \in {"cancel", "del"}
               /\ last'.res = "begin"
               /\ ~(completed \/ canceled)]_vars

\* C17 witness: a second cancel() has been entered on a task that is not
\* terminal, after the first one set the flag and returned; the flag is
\* still true.
C17_Witness ==
    /\ flag
    /\ cancels = 2
    /\ last.op = "cancel"
    /\ last.res = "begin"
    /\ drainWhy = "running"
    /\ sent # <<>>

\* ---- C18 ---------------------------------------------------------------
\* C18: a message the worker sent as a data item is, when a fetch()
\* generator receives it, yielded as an item.
C18_ItemsDeliveredAsData == last.msg.tag = "item" => last.res = "yield"

\* ---- C19 ---------------------------------------------------------------
\* The worker's error (the Exception its generator raised) was sent and has
\* been taken from the pipe, which is to say raised by a fetch().
ErrRaised ==
    /\ sent # <<>>
    /\ sent[Len(sent)] = GenErrMsg("Exception")
    /\ pipe = <<>>

\* C19: once the worker's error has been raised, a next() the caller makes
\* on a fetch() generator raises nothing, yields nothing and takes no
\* message; when the worker has closed its end it leaves canceled true and
\* completed false.
C19_FailedTaskEndsCanceled ==
    [][(ErrRaised /\ last'.op \in {"fetch", "resume"})
        => /\ last'.res = "stop"
           /\ last'.msg = NoMsg
           /\ closed => canceled' /\ ~completed']_vars

\* ---- C20 ---------------------------------------------------------------
\* The messages of the worker the controller has not read yet, oldest first.
Unread == SubSeq(sent, Len(sent) - Len(pipe) + 1, Len(sent))

====
